---- MODULE Spec2Model ----
(***************************************************************************)
(* Model of Keitai_UCPDisplay.py: the UCPViewer window (entry list,        *)
(* listbox, image cache, image label), its handlers and the start-up       *)
(* dispatch, plus the fit-to-pane size arithmetic in IEEE double           *)
(* precision as Python evaluates it.                                       *)
(***************************************************************************)
EXTENDS Integers, Sequences, FiniteSets, TLC

\* ------------------------------------------------------------------------
\* Bounds of the model
\* ------------------------------------------------------------------------
MaxDim == 5        \* image sides 1..MaxDim are probed, besides the special ones
MaxPane == 4       \* reported pane sides 0..MaxPane are probed, besides the special ones
MaxIds == 3        \* number of distinct values id() hands out
MaxEvents == 2     \* events handled by the main loop in one run

\* ------------------------------------------------------------------------
\* Program constants
\* ------------------------------------------------------------------------
DefaultPane == 400 \* "or 400" fallback of get_display_size
MantBits == 53     \* significand width of a Python float (IEEE binary64)
LimbBits == 18     \* digits per limb of the significand in this model

\* ------------------------------------------------------------------------
\* Python float arithmetic (IEEE binary64, round-half-to-even) on positive
\* integers below 2^11.  A float is [m |-> <<d1, d2, d3>>, exp |-> k]: the
\* 53-digit significand d1 * Limb^2 + d2 * Limb + d3 (d1 has 17 binary
\* digits, the leading one set; d2 and d3 have 18) and the value
\* significand * 2^(k - 52), so that 2^k <= value < 2^(k+1).
\* ------------------------------------------------------------------------
RECURSIVE Pow2(_)
Pow2(n) == IF n = 0 THEN 1 ELSE 2 * Pow2(n - 1)

Limb == Pow2(LimbBits)
TopLimb == Pow2(MantBits - 2 * LimbBits)    \* d1 < TopLimb in a normalised float

RECURSIVE BitLen(_)
BitLen(n) == IF n = 0 THEN 0 ELSE 1 + BitLen(n \div 2)

\* <<d1, d2, d3>> + 1, carrying between the limbs (d1 may reach its limit)
IncLimbs(m) ==
    IF m[3] + 1 < Limb THEN <<m[1], m[2], m[3] + 1>>
    ELSE IF m[2] + 1 < Limb THEN <<m[1], m[2] + 1, 0>>
    ELSE <<m[1] + 1, 0, 0>>

RECURSIVE NormExp(_, _)
\* the k with 2^k <= a / b < 2^(k+1)
NormExp(a, b) ==
    IF a >= 2 * b THEN 1 + NormExp(a, 2 * b)
    ELSE IF a < b THEN NormExp(2 * a, b) - 1
    ELSE 0

\* a / b  (Python true division of two positive ints)
FloatDiv(a, b) ==
    LET k   == NormExp(a, b)
        aa  == IF k < 0 THEN a * Pow2(-k) ELSE a
        bb  == IF k > 0 THEN b * Pow2(k) ELSE b
        n1  == aa * (TopLimb \div 2)
        d1  == n1 \div bb
        n2  == (n1 % bb) * Limb
        d2  == n2 \div bb
        n3  == (n2 % bb) * Limb
        d3  == n3 \div bb
        rem == n3 % bb
        up  == 2 * rem > bb \/ (2 * rem = bb /\ d3 % 2 = 1)
        m   == IF up THEN IncLimbs(<<d1, d2, d3>>) ELSE <<d1, d2, d3>>
    IN IF m[1] = TopLimb THEN [m |-> <<TopLimb \div 2, 0, 0>>, exp |-> k + 1]
       ELSE [m |-> m, exp |-> k]

FloatOne == [m |-> <<TopLimb \div 2, 0, 0>>, exp |-> 0]

FloatLess(x, y) ==
    \/ x.exp < y.exp
    \/ /\ x.exp = y.exp
       /\ \/ x.m[1] < y.m[1]
          \/ x.m[1] = y.m[1] /\ x.m[2] < y.m[2]
          \/ x.m[1] = y.m[1] /\ x.m[2] = y.m[2] /\ x.m[3] < y.m[3]

\* min(a, b, c): Python keeps the first of the smallest arguments
FloatMin3(a, b, c) ==
    LET m == IF FloatLess(b, a) THEN b ELSE a
    IN IF FloatLess(c, m) THEN c ELSE m

\* int(n * x) for a positive int n and a float 0 < x <= 1: the exact product
\* is rounded to 53 significant digits, then truncated toward zero
IntOfProduct(n, x) ==
    LET t3   == n * x.m[3]
        t2   == n * x.m[2] + (t3 \div Limb)
        t1   == n * x.m[1] + (t2 \div Limb)
        p    == <<t1, t2 % Limb, t3 % Limb>>           \* exact product digits
        s    == BitLen(t1) - (MantBits - 2 * LimbBits)  \* digits to drop
        unit == Pow2(s)
        low  == p[3] % unit
        up   == s > 0 /\ \/ 2 * low > unit
                         \/ 2 * low = unit /\ (p[3] \div unit) % 2 = 1
        cut  == <<p[1], p[2], p[3] - low>>
        lim3 == cut[3] + unit
        r    == IF ~up THEN cut
                ELSE IF lim3 < Limb THEN <<cut[1], cut[2], lim3>>
                ELSE IF cut[2] + 1 < Limb THEN <<cut[1], cut[2] + 1, 0>>
                ELSE <<cut[1] + 1, 0, 0>>
        sh   == (MantBits - 1) - x.exp - 2 * LimbBits  \* binary point inside r[1]
    IN IF sh > 30 THEN 0 ELSE r[1] \div Pow2(sh)

\* ------------------------------------------------------------------------
\* UCPViewer.get_display_size and the clamping done by on_select
\* ------------------------------------------------------------------------
OrDefault(reported) == IF reported = 0 THEN DefaultPane ELSE reported

\* variant: the ratio is not capped at 1
get_display_size_upscale(w, h, rep_w, rep_h) ==
    <<IntOfProduct(w, FloatMin3(FloatDiv(OrDefault(rep_w), w),
                                FloatDiv(OrDefault(rep_h), h),
                                FloatDiv(OrDefault(rep_h), h))),
      IntOfProduct(h, FloatMin3(FloatDiv(OrDefault(rep_w), w),
                                FloatDiv(OrDefault(rep_h), h),
                                FloatDiv(OrDefault(rep_h), h)))>>

\* (int(w * ratio), int(h * ratio))
scaled(w, h, ratio) == <<IntOfProduct(w, ratio), IntOfProduct(h, ratio)>>

get_display_size(w, h, rep_w, rep_h) ==
    scaled(w, h, FloatMin3(FloatDiv(OrDefault(rep_w), w),
                           FloatDiv(OrDefault(rep_h), h), FloatOne))

Max(a, b) == IF a >= b THEN a ELSE b

\* new_w = max(1, new_w); new_h = max(1, new_h)
at_least_one(size) == <<Max(1, size[1]), Max(1, size[2])>>

resize_to(w, h, rep_w, rep_h) == at_least_one(get_display_size(w, h, rep_w, rep_h))

\* ------------------------------------------------------------------------
\* Strings are sequences of one-character strings; a path is a sequence of
\* components ("" is the empty path), so that os.path.join appends a
\* component and os.path.basename takes the last one.
\* ------------------------------------------------------------------------
LowerChar(c) ==
    CASE c = "A" -> "a" [] c = "B" -> "b" [] c = "C" -> "c" [] c = "D" -> "d"
      [] c = "E" -> "e" [] c = "F" -> "f" [] c = "G" -> "g" [] c = "H" -> "h"
      [] c = "I" -> "i" [] c = "J" -> "j" [] c = "K" -> "k" [] c = "L" -> "l"
      [] c = "M" -> "m" [] c = "N" -> "n" [] c = "O" -> "o" [] c = "P" -> "p"
      [] c = "Q" -> "q" [] c = "R" -> "r" [] c = "S" -> "s" [] c = "T" -> "t"
      [] c = "U" -> "u" [] c = "V" -> "v" [] c = "W" -> "w" [] c = "X" -> "x"
      [] c = "Y" -> "y" [] c = "Z" -> "z" [] OTHER -> c

lower(s) == [i \in 1..Len(s) |-> LowerChar(s[i])]

endswith(s, suffix) ==
    /\ Len(s) >= Len(suffix)
    /\ SubSeq(s, Len(s) - Len(suffix) + 1, Len(s)) = suffix

\* str.endswith with a tuple of suffixes
endswith_any(s, suffixes) == \E i \in 1..Len(suffixes) : endswith(s, suffixes[i])

img_exts == << <<".", "j", "p", "g">>, <<".", "j", "p", "e", "g">>,
               <<".", "g", "i", "f">>, <<".", "p", "n", "g">> >>
ucp_ext == <<".", "u", "c", "p">>

basename(path) == IF path = <<>> THEN <<>> ELSE path[Len(path)]
join(root, fname) == Append(root, fname)
display_name(base, name) == base \o <<":", ":">> \o name

\* ------------------------------------------------------------------------
\* The file system the viewer is run on
\* ------------------------------------------------------------------------
n_d    == <<"d">>
n_sub  == <<"s", "u", "b">>
n_g    == <<"g">>
n_h    == <<"h">>
n_xtxt == <<"x", ".", "t", "x", "t">>
n_A    == <<"A", ".", "u", "c", "p">>
n_bad  == <<"b", "a", "d", ".", "u", "c", "p">>
n_B    == <<"B", ".", "U", "C", "P">>
n_n    == <<"n", ".", "u", "c", "p">>
n_J    == <<"J", ".", "U", "c", "p">>
n_ucp  == <<"u", "c", "p">>

e_apng == <<"a", ".", "p", "n", "g">>
e_BJPG == <<"B", ".", "J", "P", "G">>
e_ctxt == <<"c", ".", "t", "x", "t">>
e_gif  == <<"e", ".", "G", "i", "f">>
e_jpeg == <<"d", ".", "j", "p", "e", "g">>
e_png  == <<"p", "n", "g">>
e_bk   == <<"a", ".", "p", "n", "g", ".", "b", "k">>

p_d   == <<n_d>>
p_sub == <<n_d, n_sub>>
p_g   == <<n_d, n_sub, n_g>>
p_h   == <<n_h>>
p_x   == <<n_d, n_xtxt>>
p_A   == <<n_d, n_A>>
p_bad == <<n_d, n_sub, n_bad>>
p_B   == <<n_d, n_sub, n_B>>
p_u   == <<n_d, n_sub, n_g, n_ucp>>
p_n   == <<n_h, n_n>>
p_J   == <<n_h, n_J>>

DirPaths == {p_d, p_sub, p_g, p_h}
FilePaths == {p_x, p_A, p_bad, p_B, p_u, p_n, p_J}

\* one directory listing, in the order the directory is scanned
listdir(path) ==
    CASE path = p_d   -> [dirs |-> <<n_sub>>, files |-> <<n_xtxt, n_A>>]
      [] path = p_sub -> [dirs |-> <<n_g>>, files |-> <<n_bad, n_B>>]
      [] path = p_g   -> [dirs |-> <<>>, files |-> <<n_ucp>>]
      [] path = p_h   -> [dirs |-> <<>>, files |-> <<n_n, n_J>>]

isdir(path) == path \in DirPaths

\* the files zipfile.ZipFile accepts; it raises BadZipFile on the others
is_zipfile(path) == path \in {p_A, p_B, p_n, p_J}

namelist(path) ==
    CASE path = p_A -> <<e_apng, e_ctxt, e_BJPG>>
      [] path = p_B -> <<e_bk, e_apng>>
      [] path = p_n -> <<e_png, e_ctxt>>
      [] path = p_J -> <<e_jpeg, e_gif>>

\* Image.open(zip_obj.open(name).read()): the picture stored under a name
stored_image(path, name) ==
    CASE path = p_A /\ name = e_apng -> [pix |-> 1, w |-> 4, h |-> 2]
      [] path = p_A /\ name = e_BJPG -> [pix |-> 2, w |-> 3, h |-> 5]
      [] path = p_B /\ name = e_apng -> [pix |-> 3, w |-> 2, h |-> 4]
      [] path = p_J /\ name = e_jpeg -> [pix |-> 4, w |-> 5, h |-> 3]
      [] path = p_J /\ name = e_gif  -> [pix |-> 5, w |-> 1, h |-> 1]

RECURSIVE walk(_)
RECURSIVE walk_dirs(_, _)
\* os.walk(top): top first, then every sub-directory in listing order
walk(top) == <<[root |-> top, files |-> listdir(top).files]>>
                 \o walk_dirs(top, listdir(top).dirs)
walk_dirs(top, dirs) ==
    IF dirs = <<>> THEN <<>>
    ELSE walk(join(top, Head(dirs))) \o walk_dirs(top, Tail(dirs))

\* ------------------------------------------------------------------------
\* State of the program
\* ------------------------------------------------------------------------
VARIABLES
    pc,            \* "start": before the dispatch of __main__; "main": in mainloop
    entries,       \* self.entries: sequence of (zip_obj, image_name, display_name)
    listbox,       \* rows of self.listbox
    selection,     \* self.listbox.curselection(), as a set of row numbers
    image_cache,   \* self.image_cache: (id(zip_obj), name) -> photo
    image_label,   \* self.image_label.image: <<>> or <<photo>>
    pane,          \* <<winfo_width(), winfo_height()>> of self.right_frame
    clipboard,     \* <<>> or <<text>>
    events,        \* number of events the main loop has handled
    last,          \* the operation that led to this state, with its inputs
    probe          \* input and output of the size probe

viewer == <<entries, listbox, selection, image_cache, image_label>>
vars == <<pc, entries, listbox, selection, image_cache, image_label, pane,
          clipboard, events, last, probe>>

Ids == 1..MaxIds   \* the values id() can take
Panes == {<<4, 4>>, <<2, 3>>}   \* the sizes the right frame takes

\* rows are numbered from 1 here and from 0 in the program
FirstOf(cursel) == CHOOSE i \in cursel : \A j \in cursel : i <= j

LiveIds(ents) == {ents[i].zid : i \in 1..Len(ents)}

\* ------------------------------------------------------------------------
\* UCPViewer.on_select
\* ------------------------------------------------------------------------
\* ImageTk.PhotoImage(pil_img.resize((new_w, new_h))): the pixels of the
\* picture at the size computed for the pane
sized(pix, size) == [pix |-> pix, w |-> size[1], h |-> size[2]]
photo_of(pil_img, pn) == sized(pil_img.pix, resize_to(pil_img.w, pil_img.h, pn[1], pn[2]))

\* self.image_cache[cache_key] = photo, then the label shows it
cache_miss(cache_key, photo, cache) ==
    [cache |-> [k \in DOMAIN cache \cup {cache_key} |->
                   IF k = cache_key THEN photo ELSE cache[k]],
     label |-> <<photo>>, read |-> TRUE, shown |-> TRUE]

cache_hit(cache_key, cache) ==
    [cache |-> cache, label |-> <<cache[cache_key]>>, read |-> FALSE, shown |-> TRUE]

\* the early returns
not_shown(cache, label) ==
    [cache |-> cache, label |-> label, read |-> FALSE, shown |-> FALSE]

\* lines 115-130 for the entry e = self.entries[idx[0]]
show_entry(e, cache, pn) ==
    IF <<e.zid, e.name>> \in DOMAIN cache
    THEN cache_hit(<<e.zid, e.name>>, cache)
    ELSE cache_miss(<<e.zid, e.name>>, photo_of(stored_image(e.arch, e.name), pn), cache)

\* variant: the cache is not consulted
on_select_uncached(ents, cursel, cache, label, pn) ==
    IF ents = <<>> THEN not_shown(cache, label)
    ELSE IF cursel = {} THEN not_shown(cache, label)
    ELSE IF FirstOf(cursel) > Len(ents) THEN not_shown(cache, label)
    ELSE cache_miss(<<ents[FirstOf(cursel)].zid, ents[FirstOf(cursel)].name>>,
                    photo_of(stored_image(ents[FirstOf(cursel)].arch,
                                          ents[FirstOf(cursel)].name), pn),
                    cache)

on_select(ents, cursel, cache, label, pn) ==
    IF ents = <<>> THEN not_shown(cache, label)
    ELSE IF cursel = {} THEN not_shown(cache, label)
    ELSE IF FirstOf(cursel) > Len(ents) THEN not_shown(cache, label)  \* IndexError
    ELSE show_entry(ents[FirstOf(cursel)], cache, pn)

\* ------------------------------------------------------------------------
\* UCPViewer.populate_listbox
\* ------------------------------------------------------------------------
\* the listbox after delete(0, END) and one insert per entry
refill(rows, ents) == SubSeq(rows, 1, 0) \o [i \in 1..Len(ents) |-> ents[i].display]

\* selection_set(0), with the outcome r of the on_select call that follows
first_selected(filled, r) ==
    [listbox |-> filled, selection |-> {1}, cache |-> r.cache,
     label |-> r.label, read |-> r.read, shown |-> r.shown]

\* variant: the old rows are not deleted
populate_listbox_append(rows, ents, cache, label, pn) ==
    IF ents # <<>>
    THEN first_selected(rows \o [i \in 1..Len(ents) |-> ents[i].display],
                        on_select(ents, {1}, cache, label, pn))
    ELSE [listbox |-> rows, selection |-> {}, cache |-> cache,
          label |-> label, read |-> FALSE, shown |-> FALSE]

populate_listbox(rows, ents, cache, label, pn) ==
    IF ents # <<>>
    THEN first_selected(refill(rows, ents), on_select(ents, {1}, cache, label, pn))
    ELSE [listbox |-> refill(rows, ents), selection |-> {}, cache |-> cache,
          label |-> label, read |-> FALSE, shown |-> FALSE]

\* ------------------------------------------------------------------------
\* UCPViewer.open_ucp
\* ------------------------------------------------------------------------
\* variant: the suffix is compared without lower-casing the name
is_image_name_cased(name) == endswith_any(name, img_exts)

is_image_name(name) == endswith_any(lower(name), img_exts)

\* the entries appended for one opened archive
archive_entries(zid, path) ==
    LET base == basename(path)
        kept == SelectSeq(namelist(path), is_image_name)
    IN [i \in 1..Len(kept) |->
           [zid |-> zid, arch |-> path, name |-> kept[i],
            display |-> display_name(base, kept[i])]]

\* (a one-element \E binds a value that is computed once)
Install(ents, op) ==
    \E r \in {populate_listbox(listbox, ents, image_cache, image_label, pane)} :
       /\ entries' = ents
       /\ listbox' = r.listbox
       /\ selection' = r.selection
       /\ image_cache' = r.cache
       /\ image_label' = r.label
       /\ last' = op @@ [sel |-> r.shown, read |-> r.read]

Rejected(op) ==
    /\ UNCHANGED viewer
    /\ last' = op @@ [sel |-> FALSE, read |-> FALSE]

\* variant: self.entries is emptied before the archive is opened
open_ucp_clear_first(file_path, chosen, ctx) ==
    LET path == IF file_path = <<>> THEN chosen ELSE file_path
        op == [op |-> "open_ucp", path |-> path] @@ ctx
    IN IF path = <<>> THEN Rejected(op)
       ELSE IF ~is_zipfile(path)
       THEN /\ entries' = <<>>
            /\ UNCHANGED <<listbox, selection, image_cache, image_label>>
            /\ last' = op @@ [sel |-> FALSE, read |-> FALSE]
       ELSE \E zid \in Ids :
                \E ents \in {archive_entries(zid, path)} : Install(ents, op)

\* file_path is the argument ("" when absent), chosen the answer of the
\* file dialog ("" when cancelled)
open_ucp(file_path, chosen, ctx) ==
    LET path == IF file_path = <<>> THEN chosen ELSE file_path
        op == [op |-> "open_ucp", path |-> path] @@ ctx
    IN IF path = <<>> THEN Rejected(op)
       ELSE IF ~is_zipfile(path) THEN Rejected(op)       \* BadZipFile
       ELSE \E zid \in Ids \ LiveIds(entries) :          \* the old archives are still alive
                \E ents \in {archive_entries(zid, path)} : Install(ents, op)

\* ------------------------------------------------------------------------
\* UCPViewer.open_ucp_folder
\* ------------------------------------------------------------------------
RECURSIVE ucp_files(_, _)
ucp_files(root, files) ==
    IF files = <<>> THEN <<>>
    ELSE (IF endswith(lower(Head(files)), ucp_ext)
          THEN <<join(root, Head(files))>> ELSE <<>>)
         \o ucp_files(root, Tail(files))

RECURSIVE collect(_)
collect(walked) ==
    IF walked = <<>> THEN <<>>
    ELSE ucp_files(Head(walked).root, Head(walked).files) \o collect(Tail(walked))

find_archives(folder_path) == collect(walk(folder_path))

\* id() of the ZipFile objects made in the loop.  made[j]: a ZipFile is made
\* for archives[j]; listed[j]: it is kept alive by self.entries.  An object is
\* allocated while the listed ones and the previous value of the local
\* zip_obj are alive; ids[j] = 0 where no object is made.
Allocation(made, listed, ids) ==
    \A j \in 1..Len(ids) :
        IF ~made[j] THEN ids[j] = 0
        ELSE /\ ids[j] \in Ids
             /\ \A i \in 1..(j - 1) :
                    (made[i] /\ (listed[i] \/ \A k \in (i + 1)..(j - 1) : ~made[k]))
                    => ids[j] # ids[i]

RECURSIVE scan_archives_stop(_, _, _)
\* variant: the scan ends at the first invalid archive
scan_archives_stop(archives, ids, j) ==
    IF j > Len(archives) THEN <<>>
    ELSE IF ~is_zipfile(archives[j]) THEN <<>>
    ELSE archive_entries(ids[j], archives[j]) \o scan_archives_stop(archives, ids, j + 1)

RECURSIVE scan_archives(_, _, _)
scan_archives(archives, ids, j) ==
    IF j > Len(archives) THEN <<>>
    ELSE (IF is_zipfile(archives[j]) THEN archive_entries(ids[j], archives[j])
          ELSE <<>>)                                     \* BadZipFile: continue
         \o scan_archives(archives, ids, j + 1)

open_ucp_folder(folder_path, ctx) ==
    LET op == [op |-> "open_ucp_folder", path |-> folder_path] @@ ctx
    IN IF folder_path = <<>> \/ ~isdir(folder_path) THEN Rejected(op)
       ELSE \E archives \in {find_archives(folder_path)} :
            IF archives = <<>> THEN Rejected(op)
            ELSE \E made \in {[j \in 1..Len(archives) |-> is_zipfile(archives[j])]} :
                 \E listed \in {[j \in 1..Len(archives) |->
                                   made[j] /\ archive_entries(0, archives[j]) # <<>>]} :
                 \E ids \in [1..Len(archives) -> 0..MaxIds] :
                        /\ Allocation(made, listed, ids)
                        /\ \E ents \in {scan_archives(archives, ids, 1)} : Install(ents, op)

\* ------------------------------------------------------------------------
\* Events of the main loop
\* ------------------------------------------------------------------------
Handled ==
    /\ pc = "main"
    /\ events < MaxEvents
    /\ events' = events + 1

Menu == [startup |-> FALSE]
DialogFiles == {p_A, p_bad, p_B, p_n, p_J, <<>>}
DialogFolders == DirPaths \cup {<<>>}

MenuOpenFile ==
    /\ Handled
    /\ \E chosen \in DialogFiles : open_ucp(<<>>, chosen, Menu)
    /\ UNCHANGED <<pc, pane, clipboard, probe>>

MenuOpenFolder ==
    /\ Handled
    /\ \E chosen \in DialogFolders : open_ucp_folder(chosen, Menu)
    /\ UNCHANGED <<pc, pane, clipboard, probe>>

\* <<ListboxSelect>>: the user picks a row
SelectRow ==
    /\ Handled
    /\ \E row \in 1..Len(listbox) :
           \E r \in {on_select(entries, {row}, image_cache, image_label, pane)} :
              /\ selection' = {row}
              /\ image_cache' = r.cache
              /\ image_label' = r.label
              /\ last' = [op |-> "on_select", idx |-> row, startup |-> FALSE, sel |-> r.shown, read |-> r.read]
    /\ UNCHANGED <<pc, entries, listbox, pane, clipboard, probe>>

\* <Button-3>: show_context_menu; nearest() is a row, or -1 in an empty list
show_context_menu ==
    /\ Handled
    /\ \/ /\ listbox = <<>>
          /\ selection' = {}
          /\ last' = [op |-> "show_context_menu", idx |-> 0, startup |-> FALSE, sel |-> FALSE, read |-> FALSE]
       \/ \E idx \in 1..Len(listbox) :
            /\ selection' = {idx}
            /\ last' = [op |-> "show_context_menu", idx |-> idx, startup |-> FALSE, sel |-> FALSE, read |-> FALSE]
    /\ UNCHANGED <<pc, entries, listbox, image_cache, image_label, pane, clipboard,
                   probe>>

copy_selected ==
    /\ Handled
    /\ clipboard' = IF selection = {} THEN clipboard
                    ELSE <<listbox[FirstOf(selection)]>>
    /\ last' = [op |-> "copy_selected", startup |-> FALSE, sel |-> FALSE, read |-> FALSE]
    /\ UNCHANGED <<pc, entries, listbox, selection, image_cache, image_label, pane,
                   probe>>

\* the window is mapped or resized by the user
Resize ==
    /\ Handled
    /\ \E p \in Panes : p # pane /\ pane' = p
    /\ last' = [op |-> "resize", startup |-> FALSE, sel |-> FALSE, read |-> FALSE]
    /\ UNCHANGED <<pc, entries, listbox, selection, image_cache, image_label,
                   clipboard, probe>>

\* ------------------------------------------------------------------------
\* __main__
\* ------------------------------------------------------------------------
NoArg == [given |-> FALSE, path |-> <<>>]
Arg(path) == [given |-> TRUE, path |-> path]
FolderArgs == {NoArg, Arg(<<>>), Arg(p_d), Arg(p_g), Arg(p_A)}
FileArgs == {NoArg, Arg(<<>>), Arg(p_A), Arg(p_bad)}

\* truth value of args.folder / args.file: None and "" are false
Truthy(arg) == arg.given /\ arg.path # <<>>

\* variant: the positional file takes precedence over -F
Main_file_first ==
    /\ pc = "start"
    /\ pc' = "main"
    /\ \E folder \in FolderArgs, file \in FileArgs :
         LET ctx == [startup |-> TRUE, folder |-> folder, file |-> file]
         IN IF Truthy(file) THEN open_ucp(file.path, <<>>, ctx)
            ELSE IF Truthy(folder) THEN open_ucp_folder(folder.path, ctx)
            ELSE /\ UNCHANGED viewer
                 /\ last' = [op |-> "none", sel |-> FALSE, read |-> FALSE] @@ ctx
    /\ UNCHANGED <<pane, clipboard, events, probe>>

Main ==
    /\ pc = "start"
    /\ pc' = "main"
    /\ \E folder \in FolderArgs, file \in FileArgs :
         LET ctx == [startup |-> TRUE, folder |-> folder, file |-> file]
         IN IF Truthy(folder) THEN open_ucp_folder(folder.path, ctx)
            ELSE IF Truthy(file) THEN open_ucp(file.path, <<>>, ctx)
            ELSE /\ UNCHANGED viewer
                 /\ last' = [op |-> "none", sel |-> FALSE, read |-> FALSE] @@ ctx
    /\ UNCHANGED <<pane, clipboard, events, probe>>

NoProbe == [w |-> 1, h |-> 1, rep_w |-> 0, rep_h |-> 0, done |-> FALSE, out |-> <<0, 0>>]

InitViewer ==
    /\ pc = "start"
    /\ entries = <<>>
    /\ listbox = <<>>
    /\ selection = {}
    /\ image_cache = <<>>
    /\ image_label = <<>>
    /\ pane \in Panes
    /\ clipboard = <<>>
    /\ events = 0
    /\ last = [op |-> "init", sel |-> FALSE, read |-> FALSE, startup |-> FALSE]

Init == InitViewer /\ probe = NoProbe

Next ==
    \/ Main
    \/ SelectRow
    \/ show_context_menu
    \/ copy_selected
    \/ Resize
    \/ MenuOpenFile
    \/ MenuOpenFolder

Spec == Init /\ [][Next]_vars

\* ------------------------------------------------------------------------
\* Size probe: the arithmetic of a cache miss applied to one image size and
\* one reported pane size
\* ------------------------------------------------------------------------
ImgDims == (1..MaxDim) \cup {22, 23, 539, 800}
PaneDims == (0..MaxPane) \cup {13, 15, 400}

InitSize ==
    /\ InitViewer
    /\ \E w \in ImgDims, h \in ImgDims, rw \in PaneDims, rh \in PaneDims :
           probe = [w |-> w, h |-> h, rep_w |-> rw, rep_h |-> rh,
                    done |-> FALSE, out |-> <<0, 0>>]

ComputeSize ==
    /\ ~probe.done
    /\ probe' = [probe EXCEPT !.done = TRUE,
                              !.out = resize_to(probe.w, probe.h, probe.rep_w, probe.rep_h)]
    /\ UNCHANGED <<pc, entries, listbox, selection, image_cache, image_label, pane,
                   clipboard, events, last>>

NextSize == ComputeSize
SpecSize == InitSize /\ [][NextSize]_vars

\* ------------------------------------------------------------------------
\* Vocabulary of the properties
\* ------------------------------------------------------------------------
ImageSuffixes == {<<".", "j", "p", "g">>, <<".", "j", "p", "e", "g">>,
                  <<".", "g", "i", "f">>, <<".", "p", "n", "g">>}

\* the last characters of name, lower-cased one by one, spell ext
SpellsAtEnd(name, ext) ==
    /\ Len(name) >= Len(ext)
    /\ \A k \in 1..Len(ext) : LowerChar(name[Len(name) - Len(ext) + k]) = ext[k]

NameIsImage(name) == \E ext \in ImageSuffixes : SpellsAtEnd(name, ext)

ImagePositions(path) ==
    {k \in 1..Len(namelist(path)) : NameIsImage(namelist(path)[k])}

\* <archive basename>::<entry name>
Shown(path, name) == path[Len(path)] \o <<":", ":">> \o name

Triples(ents) == [i \in 1..Len(ents) |-> <<ents[i].arch, ents[i].name, ents[i].display>>]

Below(dir, path) == Len(path) > Len(dir) /\ SubSeq(path, 1, Len(dir)) = dir

UcpFilesBelow(dir) ==
    {f \in FilePaths : Below(dir, f) /\ SpellsAtEnd(f[Len(f)], ucp_ext)}

RECURSIVE ImagesFrom(_, _)
\* the image entries of an archive from position k on, as triples
ImagesFrom(path, k) ==
    IF k > Len(namelist(path)) THEN <<>>
    ELSE (IF k \in ImagePositions(path)
          THEN << <<path, namelist(path)[k], Shown(path, namelist(path)[k])>> >>
          ELSE <<>>) \o ImagesFrom(path, k + 1)

RECURSIVE TreeImages(_, _, _)
\* the image entries of the archives of dir and below: the files of dir from
\* position f on, then the sub-directories of dir from position d on
TreeImages(dir, f, d) ==
    LET here == listdir(dir)
    IN IF f <= Len(here.files)
       THEN LET path == dir \o <<here.files[f]>>
            IN (IF path \in UcpFilesBelow(dir) /\ is_zipfile(path)
                THEN ImagesFrom(path, 1) ELSE <<>>) \o TreeImages(dir, f + 1, d)
       ELSE IF d <= Len(here.dirs)
       THEN TreeImages(dir \o <<here.dirs[d]>>, 1, 1) \o TreeImages(dir, f, d + 1)
       ELSE <<>>

SelectedEntry == entries[FirstOf(selection)]

\* ------------------------------------------------------------------------
\* Properties
\* ------------------------------------------------------------------------

\* C1: after open_ucp succeeds on a valid archive, self.entries is exactly
\* the archive's names with an image suffix (case-insensitively), in namelist
\* order, each with the display name <basename>::<name>, and nothing else.
C1_OpenUcpListsImageEntries ==
    (last.op = "open_ucp" /\ last.path # <<>> /\ is_zipfile(last.path)) =>
        LET names == namelist(last.path)
            pos == ImagePositions(last.path)
        IN /\ Len(entries) = Cardinality(pos)
           /\ \A i \in 1..Len(entries) :
                /\ entries[i].arch = last.path
                /\ entries[i].display = Shown(last.path, entries[i].name)
                /\ \E k \in pos : /\ names[k] = entries[i].name
                                  /\ Cardinality({m \in pos : m <= k}) = i

\* an archive was opened with open_ucp after the images of another one
\* (J.Ucp) had been listed and cached
C1_Witness ==
    /\ last.op = "open_ucp" /\ last.path = p_A
    /\ Len(entries) = 2
    /\ \E k \in DOMAIN image_cache : image_cache[k].pix = 4

C3_DisplayedFitsPane ==
    last.sel => /\ image_label[1].w <= pane[1]
                /\ image_label[1].h <= pane[2]

\* C4: whenever on_select has displayed an image, it is the decoding of the
\* selected entry's own bytes in the archive the entry belongs to.
C4_DisplayedIsOwnImage ==
    last.sel =>
        image_label[1].pix = stored_image(SelectedEntry.arch, SelectedEntry.name).pix

\* floor(x * r) for the real number r = min(max_w / w, max_h / h, 1)
ExactScaled(x, w, h, max_w, max_h) ==
    IF max_w >= w /\ max_h >= h THEN x
    ELSE IF max_w * h <= max_h * w THEN (x * max_w) \div w
    ELSE (x * max_h) \div h

ProbeBounds == <<IF probe.rep_w = 0 THEN 400 ELSE probe.rep_w,
                 IF probe.rep_h = 0 THEN 400 ELSE probe.rep_h>>

ProbeExact ==
    <<Max(1, ExactScaled(probe.w, probe.w, probe.h, ProbeBounds[1], ProbeBounds[2])),
      Max(1, ExactScaled(probe.h, probe.w, probe.h, ProbeBounds[1], ProbeBounds[2]))>>

ProbeSafe ==
    /\ probe.out[1] <= ProbeBounds[1] /\ probe.out[2] <= ProbeBounds[2]
    /\ probe.out[1] <= probe.w /\ probe.out[2] <= probe.h
    /\ probe.out[1] >= 1 /\ probe.out[2] >= 1
    /\ (probe.w <= ProbeBounds[1] /\ probe.h <= ProbeBounds[2])
           => probe.out = <<probe.w, probe.h>>

\* C5 as stated: the size of a cache miss is (max(1, floor(w*r)),
\* max(1, floor(h*r))) for r = min(max_w/w, max_h/h, 1); it is within the
\* bounds, not larger than the original, at least 1 x 1, and the original
\* size when the original fits.
C5_SizeIsExactFloor ==
    probe.done => (probe.out = ProbeExact /\ ProbeSafe)

\* C5 as amended: the size is that formula evaluated in floating point: each
\* side is max(1, floor) of the exact product or one less than it; the four
\* properties hold.
C5_SizeWithinOneOfFloor ==
    probe.done =>
        /\ \A i \in 1..2 : probe.out[i] \in {ProbeExact[i], Max(1, ProbeExact[i] - 1)}
        /\ ProbeSafe

\* a 1 x 22 image in a pane 15 high is given the height 14
C5_Witness ==
    /\ probe.done
    /\ probe.h = 22 /\ probe.rep_h = 15 /\ probe.rep_w = 1 /\ probe.w = 1
    /\ probe.out = <<1, 14>>

\* C6: a selection whose key is cached shows the cached image without
\* reading the archive and leaves the cache (and, for a list selection, the
\* entries) unchanged; a selection whose key is absent adds exactly that
\* key; no step removes or replaces a cache entry.
C6_CacheHitReusesImage ==
    [][ /\ \A k \in DOMAIN image_cache :
              k \in DOMAIN image_cache' /\ image_cache'[k] = image_cache[k]
        /\ last'.sel =>
              LET e == entries'[FirstOf(selection')]
                  key == <<e.zid, e.name>>
              IN IF key \in DOMAIN image_cache
                 THEN /\ image_cache' = image_cache
                      /\ image_label' = <<image_cache[key]>>
                      /\ ~last'.read
                      /\ last'.op = "on_select" => entries' = entries
                 ELSE /\ DOMAIN image_cache' = DOMAIN image_cache \cup {key}
                      /\ last'.read
      ]_vars

\* a list selection was served from the cache while the cache holds another
\* image as well
C6_Witness ==
    /\ last.op = "on_select" /\ last.sel /\ ~last.read
    /\ Cardinality(DOMAIN image_cache) >= 2

\* C7 as stated: with -F given the folder is loaded and the file is not
\* opened; with only the file given it is opened; with neither the main
\* loop starts with nothing listed and nothing displayed.
C7_StartupDispatch ==
    last.startup =>
        /\ last.folder.given =>
              (last.op = "open_ucp_folder" /\ last.path = last.folder.path)
        /\ (~last.folder.given /\ last.file.given) =>
              (last.op = "open_ucp" /\ last.path = last.file.path)
        /\ (~last.folder.given /\ ~last.file.given) =>
              /\ last.op = "none"
              /\ entries = <<>> /\ listbox = <<>> /\ image_label = <<>>

\* C7 as amended: the same for arguments that are given and not empty; an
\* empty -F value or an empty file name counts as absent.
C7_StartupDispatchNonEmpty ==
    last.startup =>
        LET f == last.folder.given /\ last.folder.path # <<>>
            g == last.file.given /\ last.file.path # <<>>
        IN /\ f => (last.op = "open_ucp_folder" /\ last.path = last.folder.path)
           /\ (~f /\ g) => (last.op = "open_ucp" /\ last.path = last.file.path)
           /\ (~f /\ ~g) =>
                 /\ last.op = "none"
                 /\ entries = <<>> /\ listbox = <<>> /\ image_label = <<>>

\* started with both -F d and the file A.ucp: the folder was loaded
C7_Witness ==
    /\ last.startup
    /\ last.folder = Arg(p_d) /\ last.file = Arg(p_A)
    /\ last.op = "open_ucp_folder"
    /\ Len(entries) = 3

RejectedLoad(l) ==
    \/ /\ l.op = "open_ucp"
       /\ (l.path = <<>> \/ ~is_zipfile(l.path))
    \/ /\ l.op = "open_ucp_folder"
       /\ (l.path = <<>> \/ l.path \notin DirPaths \/ UcpFilesBelow(l.path) = {})

\* C8: a load that is cancelled, given an invalid archive, given an empty or
\* non-directory path, or given a directory without '.ucp' files leaves
\* entries, rows, selection, displayed image and cache as they were.
C8_RejectedLoadChangesNothing ==
    [][ RejectedLoad(last') =>
          UNCHANGED <<entries, listbox, selection, image_label, image_cache>> ]_vars

\* an invalid archive was refused while images were listed and displayed
C8_Witness ==
    /\ last.op = "open_ucp" /\ last.path = p_bad
    /\ entries # <<>> /\ image_label # <<>> /\ selection # {}

C10_DisplayedIsSelected ==
    image_label # <<>> =>
        /\ selection # {}
        /\ FirstOf(selection) <= Len(entries)
        /\ image_label[1].pix =
               stored_image(SelectedEntry.arch, SelectedEntry.name).pix
====
